---- MODULE Spec2Model ----
(***************************************************************************)
(* Model of the two path-rewriting tools of Cyb3Raya-Blog:                 *)
(*   src/fix_pages_paths.py  ("engine 1": normalise root-absolute paths    *)
(*                            to /<repo>/...)                              *)
(*   src/fix_paths.py        ("engine 2": strip legacy prefixes)           *)
(*                                                                         *)
(* A Python str is a sequence of one-character strings; a file's content   *)
(* is a sequence of bytes, each byte a short string as well (an ASCII byte *)
(* is written as its character, the others as "xHH").                      *)
(***************************************************************************)
EXTENDS Integers, Sequences, FiniteSets, TLC

VARIABLES
    pc,            \* position of the program / of the function under check
    path,          \* normalize_root_path: argument `path`
    repo,          \* engine 1: the repository name (args.repo / parameter repo)
    new,           \* normalize_root_path(path, repo)
    new2,          \* normalize_root_path(new, repo)
    text,          \* rewrite_text: argument `text`
    out,           \* rewrite_text: returned text
    count,         \* rewrite_text: returned count
    content,       \* apply_replacements: argument `content`
    bad_prefixes,  \* apply_replacements: argument `bad_prefixes` (engine 2: args.prefix)
    first,         \* apply_replacements(content, bad_prefixes)        = <<text, total>>
    second,        \* apply_replacements(first[1], bad_prefixes)      = <<text, total>>
    fs,            \* the file system under --root: file name -> bytes, or Absent
    args,          \* the parsed command line of the running tool
    todo,          \* the files the running tool has still to visit
    cur,           \* the file being processed, with what was read and computed
    totals,        \* the running totals of the run
    hist           \* history: what each run started from and did (for the properties)

vars == <<pc, path, repo, new, new2, text, out, count, content, bad_prefixes,
          first, second, fs, args, todo, cur, totals, hist>>

----------------------------------------------------------------------------
(* Python str / bytes primitives                                           *)

RECURSIVE Concat(_)
Concat(ss) == IF ss = <<>> THEN <<>> ELSE Head(ss) \o Concat(Tail(ss))

\* the Python slice s[i-1:], written with the 1-based SubSeq
From(s, i) == SubSeq(s, i, Len(s))

\* str.startswith / str.endswith
startswith(s, p) == Len(p) <= Len(s) /\ SubSeq(s, 1, Len(p)) = p
endswith(s, p) == Len(p) <= Len(s) /\ SubSeq(s, Len(s) - Len(p) + 1, Len(s)) = p

\* the characters str.strip() removes and the regex class \s matches
Whitespace == {" ", "\t", "\n", "\r", "\f"}

RECURSIVE lstrip(_)
lstrip(s) == IF s # <<>> /\ Head(s) \in Whitespace THEN lstrip(Tail(s)) ELSE s

RECURSIVE rstrip(_)
rstrip(s) ==
    IF s # <<>> /\ s[Len(s)] \in Whitespace THEN rstrip(SubSeq(s, 1, Len(s) - 1)) ELSE s

\* str.strip()
strip(s) == rstrip(lstrip(s))

UpperLetters == <<"A","B","C","D","E","F","G","H","I","J","K","L","M",
                  "N","O","P","Q","R","S","T","U","V","W","X","Y","Z">>
LowerLetters == <<"a","b","c","d","e","f","g","h","i","j","k","l","m",
                  "n","o","p","q","r","s","t","u","v","w","x","y","z">>
Digits == {"0","1","2","3","4","5","6","7","8","9"}

ToLower ==
    [c \in {UpperLetters[i] : i \in 1..26} |->
        LowerLetters[CHOOSE i \in 1..26 : UpperLetters[i] = c]]

LowerChar(c) == IF c \in DOMAIN ToLower THEN ToLower[c] ELSE c

\* str.lower()
lower(s) == [i \in 1..Len(s) |-> LowerChar(s[i])]

\* the regex class \w (str pattern): letters, digits, underscore
\* (the non-ASCII letters of the model's alphabet are the "U+00.." letters)
WordChars ==
    {UpperLetters[i] : i \in 1..26} \cup {LowerLetters[i] : i \in 1..26}
        \cup Digits \cup {"_"} \cup {"U+00E9", "U+00C3"}

IsWordChar(c) == c \in WordChars

----------------------------------------------------------------------------
(* src/fix_pages_paths.py: the classifier                                  *)

Cyb3Raya == <<"C","y","b","3","R","a","y","a">>
SlashCyb3Raya == <<"/">> \o Cyb3Raya

ExternalPrefixes ==
    { <<"h","t","t","p",":","/","/">>,
      <<"h","t","t","p","s",":","/","/">>,
      <<"m","a","i","l","t","o",":">>,
      <<"t","e","l",":">>,
      <<"d","a","t","a",":">>,
      <<"j","a","v","a","s","c","r","i","p","t",":">>,
      <<"/","/">>,
      <<"#">> }

is_external(url) ==
    LET u == strip(url)
        low == lower(u)
    IN  \E e \in ExternalPrefixes : startswith(low, e)

\* the same substitution without the lookahead (?=/|$): any path that
\* starts with /<repo>/Cyb3Raya is taken for a doubled prefix
SubDoublePrefix_NoLookahead(p, r) ==
    LET pat == <<"/">> \o r \o SlashCyb3Raya
    IN  IF startswith(p, pat) THEN <<"/">> \o r \o From(p, Len(pat) + 1) ELSE p

\* re.sub(rf"^/{re.escape(repo)}/Cyb3Raya(?=/|$)", f"/{repo}", p):
\* the pattern is anchored, so at most one substitution, at the start of p.
\* "$" matches at the end of p and before a newline that ends p.
\* The replacement is a template; for a repository name without a backslash
\* (RepoNames) it stands for itself.
SubDoublePrefix(p, r) ==
    LET pat == <<"/">> \o r \o SlashCyb3Raya
        rest == From(p, Len(pat) + 1)
    IN  IF /\ startswith(p, pat)
           /\ \/ rest = <<>>
              \/ Head(rest) = "/"
              \/ rest = <<"\n">>
        THEN <<"/">> \o r \o rest
        ELSE p

normalize_root_path(path_, repo_) ==
    LET p == strip(path_)
        good == <<"/">> \o repo_
    IN  IF ~startswith(p, <<"/">>) THEN path_
        ELSE IF is_external(p) THEN path_
        ELSE IF p = good \/ startswith(p, good \o <<"/">>)
             THEN SubDoublePrefix(p, repo_)
        ELSE IF p = SlashCyb3Raya \/ startswith(p, SlashCyb3Raya \o <<"/">>)
             THEN LET remainder == From(p, Len(SlashCyb3Raya) + 1)
                  IN  good \o (IF remainder = <<>> THEN <<"/">> ELSE remainder)
        ELSE good \o p

----------------------------------------------------------------------------
(* src/fix_pages_paths.py: the text rewriter                               *)

Quotes == {"\"", "'"}

NoMatch == [ok |-> FALSE]

\* the first index >= j of t that is not whitespace (Len(t) + 1 if none): \s*
RECURSIVE SkipWs(_, _)
SkipWs(t, j) == IF j <= Len(t) /\ t[j] \in Whitespace THEN SkipWs(t, j + 1) ELSE j

\* the first index >= j of t whose character is in stop (Len(t) + 1 if none):
\* the end of a greedy negated class [^...]*
RECURSIVE ScanTo(_, _, _)
ScanTo(t, j, stop) == IF j <= Len(t) /\ t[j] \notin stop THEN ScanTo(t, j + 1, stop) ELSE j

\* \b before a word character at index i
WordBoundaryBefore(t, i) == i = 1 \/ ~IsWordChar(t[i - 1])

\* keyword kw at index i of t, ignoring case (re.IGNORECASE)
KeywordAt(t, i, kw) ==
    /\ i + Len(kw) - 1 <= Len(t)
    /\ \A k \in 1..Len(kw) : LowerChar(t[i + k - 1]) = kw[k]

AttrKeywords ==
    { <<"h","r","e","f">>, <<"s","r","c">>, <<"a","c","t","i","o","n">> }

\* ATTR_PATTERN matched at index i of t:
\*   \b(?:href|src|action)\s*=\s*["']   [^"']*   ["']
\* The path is greedy and cannot hold a quote, so it runs to the next quote.
ATTR_PATTERN(t, i) ==
    IF ~(WordBoundaryBefore(t, i) /\ \E kw \in AttrKeywords : KeywordAt(t, i, kw))
    THEN NoMatch
    ELSE LET kw == CHOOSE k \in AttrKeywords : KeywordAt(t, i, k)
             eq == SkipWs(t, i + Len(kw))
             q == SkipWs(t, eq + 1)
             close == ScanTo(t, q + 1, Quotes)
         IN  IF /\ eq <= Len(t) /\ t[eq] = "="
                /\ q <= Len(t) /\ t[q] \in Quotes
                /\ close <= Len(t)
             THEN [ok |-> TRUE, start |-> i, end |-> close,
                   prefix |-> SubSeq(t, i, q),
                   path |-> SubSeq(t, q + 1, close - 1),
                   suffix |-> SubSeq(t, close, close)]
             ELSE NoMatch

UrlOpen == <<"u","r","l","(">>

\* CSS_URL_PATTERN matched at index i of t:
\*   \burl\(\s*["']?   [^)"']*   ["']?\s*\)
\* The path is greedy and runs to the next quote or ")"; after a quote only
\* whitespace may precede the ")". Giving characters back never helps.
CSS_URL_PATTERN(t, i) ==
    IF ~(WordBoundaryBefore(t, i) /\ KeywordAt(t, i, UrlOpen))
    THEN NoMatch
    ELSE LET w == SkipWs(t, i + Len(UrlOpen))
             ps == IF w <= Len(t) /\ t[w] \in Quotes THEN w + 1 ELSE w
             k == ScanTo(t, ps, Quotes \cup {")"})
             close == IF k <= Len(t) /\ t[k] \in Quotes THEN SkipWs(t, k + 1) ELSE k
         IN  IF close <= Len(t) /\ t[close] = ")"
             THEN [ok |-> TRUE, start |-> i, end |-> close,
                   prefix |-> SubSeq(t, i, ps - 1),
                   path |-> SubSeq(t, ps, k - 1),
                   suffix |-> SubSeq(t, k, close)]
             ELSE NoMatch

MatchAt(kind, t, i) == IF kind = "attr" THEN ATTR_PATTERN(t, i) ELSE CSS_URL_PATTERN(t, i)

\* the replacement callbacks: the new path for a matched path `old`
repl_attr(old, repo_) ==
    IF startswith(strip(old), <<"/">>) THEN normalize_root_path(old, repo_) ELSE old

\* the callback of the CSS pass testing the path as matched, not stripped
repl_css_NoStrip(old, repo_) ==
    IF startswith(old, <<"/">>) THEN normalize_root_path(old, repo_) ELSE old

repl_css(old, repo_) ==
    IF startswith(strip(old), <<"/">>) THEN normalize_root_path(old, repo_) ELSE old

Repl(kind, old, repo_) == IF kind = "attr" THEN repl_attr(old, repo_) ELSE repl_css(old, repo_)

\* pattern.sub(callback, t): the leftmost matches, left to right, not
\* overlapping; acc is the output so far and n the changes counted so far
RECURSIVE Sub(_, _, _, _, _, _)
Sub(kind, t, i, repo_, acc, n) ==
    IF i > Len(t) THEN [out |-> acc, count |-> n]
    ELSE LET m == MatchAt(kind, t, i)
         IN  IF m.ok
             THEN LET nw == Repl(kind, m.path, repo_)
                  IN  Sub(kind, t, m.end + 1, repo_,
                          acc \o m.prefix \o nw \o m.suffix,
                          IF nw # m.path THEN n + 1 ELSE n)
             ELSE Sub(kind, t, i + 1, repo_, Append(acc, t[i]), n)

\* rewrite_text(text, repo): the attribute pass, then the url() pass over its
\* output, one count for both
rewrite_text(text_, repo_) ==
    LET a == Sub("attr", text_, 1, repo_, <<>>, 0)
    IN  Sub("css", a.out, 1, repo_, <<>>, a.count)

----------------------------------------------------------------------------
(* Engine 1 as a state machine: the classifier applied to a path and then  *)
(* to its own result, and the rewriter applied to a text.                  *)

\* all sequences over S of length at most n
BoundedSeq(S, n) == UNION { [1..k -> S] : k \in 0..n }

MaxPathPieces == 4
MaxTextPieces == 4

Blog == <<"-","B","l","o","g">>

\* --repo values: GitHub repository names (letters, digits, ".", "-", "_")
RepoNames == { <<"r">>, Cyb3Raya, Cyb3Raya \o Blog }

\* what the paths under check are put together from
PathPieces ==
    { <<"/">>, SlashCyb3Raya, Blog, <<"/","r">>, <<" ">>,
      <<"H","t","t","P",":">>, <<"#">> }

PathInputs == { Concat(ps) : ps \in BoundedSeq(PathPieces, MaxPathPieces) }

\* what the texts under check are put together from
TextPieces ==
    { <<"h","r","e","f","=","\"">>,
      <<"\"">>,
      <<"U","R","L","("," ","'">>,
      <<"'"," ",")">>,
      <<"u","r","l","(","/","x",")">>,
      <<" ">> \o SlashCyb3Raya,
      <<"/","/","e","/">>,
      <<"/","r">> }

TextInputs == { Concat(ps) : ps \in BoundedSeq(TextPieces, MaxTextPieces) }

RewriterRepos == { <<"r">>, Cyb3Raya }

ClassifierVars == <<path, new, new2>>
RewriterVars == <<text, out, count>>
Engine2Vars == <<content, bad_prefixes, first, second>>
DriverVars == <<fs, args, todo, cur, totals, hist>>

ClassifierIdle == path = <<>> /\ new = <<>> /\ new2 = <<>>
RewriterIdle == text = <<>> /\ out = <<>> /\ count = 0
Engine2Idle == content = <<>> /\ bad_prefixes = <<>> /\ first = <<>> /\ second = <<>>
DriverIdle ==
    fs = <<>> /\ args = <<>> /\ todo = <<>> /\ cur = <<>> /\ totals = <<>> /\ hist = <<>>

InitClassifier ==
    /\ pc = "classify"
    /\ path \in PathInputs
    /\ repo \in RepoNames
    /\ new = <<>> /\ new2 = <<>>
    /\ RewriterIdle

InitRewriter ==
    /\ pc = "rewrite"
    /\ text \in TextInputs
    /\ repo \in RewriterRepos
    /\ out = <<>> /\ count = 0
    /\ ClassifierIdle

InitEngine1 == (InitClassifier \/ InitRewriter) /\ Engine2Idle /\ DriverIdle

\* new = normalize_root_path(path, repo)
Classify ==
    /\ pc = "classify"
    /\ new' = normalize_root_path(path, repo)
    /\ pc' = "classified"
    /\ UNCHANGED <<path, repo, new2, RewriterVars, Engine2Vars, DriverVars>>

\* a second application, to the result of the first
ClassifyAgain ==
    /\ pc = "classified"
    /\ new2' = normalize_root_path(new, repo)
    /\ pc' = "reclassified"
    /\ UNCHANGED <<path, repo, new, RewriterVars, Engine2Vars, DriverVars>>

\* out, count = rewrite_text(text, repo)
Rewrite ==
    /\ pc = "rewrite"
    /\ LET r == rewrite_text(text, repo)
       IN  out' = r.out /\ count' = r.count
    /\ pc' = "rewritten"
    /\ UNCHANGED <<text, repo, ClassifierVars, Engine2Vars, DriverVars>>

NextEngine1 == Classify \/ ClassifyAgain \/ Rewrite

SpecEngine1 == InitEngine1 /\ [][NextEngine1]_vars

----------------------------------------------------------------------------
(* src/fix_paths.py: the prefix-strip rewriter                             *)

\* s.replace(old, nw) for a non-empty old: the occurrences of old, left to
\* right and not overlapping; acc is the output so far
RECURSIVE ReplaceFrom(_, _, _, _)
ReplaceFrom(s, old, nw, acc) ==
    IF s = <<>> THEN acc
    ELSE IF startswith(s, old)
         THEN ReplaceFrom(From(s, Len(old) + 1), old, nw, acc \o nw)
         ELSE ReplaceFrom(Tail(s), old, nw, Append(acc, Head(s)))

replace(s, old, nw) == ReplaceFrom(s, old, nw, <<>>)

\* s.split(sep) for a non-empty sep: the list of the pieces between the
\* occurrences of sep; seg is the piece being read, acc the pieces so far
RECURSIVE SplitFrom(_, _, _, _)
SplitFrom(s, sep, seg, acc) ==
    IF s = <<>> THEN Append(acc, seg)
    ELSE IF startswith(s, sep)
         THEN SplitFrom(From(s, Len(sep) + 1), sep, <<>>, Append(acc, seg))
         ELSE SplitFrom(Tail(s), sep, Append(seg, Head(s)), acc)

split(s, sep) == SplitFrom(s, sep, <<>>, <<>>)

Max(a, b) == IF a >= b THEN a ELSE b

\* the prefix made to start and to end with "/"
NormalizePrefix(prefix) ==
    LET p1 == IF ~startswith(prefix, <<"/">>) THEN <<"/">> \o prefix ELSE prefix
    IN  IF ~endswith(p1, <<"/">>) THEN p1 \o <<"/">> ELSE p1

\* the same turn counting the occurrences after the replacement
ReplaceOne_CountAfter(st, prefix) ==
    IF prefix = <<>> THEN st
    ELSE LET p == NormalizePrefix(prefix)
             after == replace(st[1], p, <<"/">>)
         IN  <<after, st[2] + Max(0, Len(split(after, p)) - 1)>>

\* one turn of the loop of apply_replacements, from <<new_content, total>>
ReplaceOne(st, prefix) ==
    IF prefix = <<>> THEN st
    ELSE LET p == NormalizePrefix(prefix)
             before == st[1]
         IN  <<replace(before, p, <<"/">>), st[2] + Max(0, Len(split(before, p)) - 1)>>

RECURSIVE ReplaceAll(_, _)
ReplaceAll(st, prefixes) ==
    IF prefixes = <<>> THEN st
    ELSE ReplaceAll(ReplaceOne(st, Head(prefixes)), Tail(prefixes))

\* apply_replacements(content, bad_prefixes) = <<new_content, total>>
apply_replacements(content_, bad_prefixes_) == ReplaceAll(<<content_, 0>>, bad_prefixes_)

----------------------------------------------------------------------------
(* Engine 2 as a state machine: apply_replacements applied to a text and   *)
(* then to its own result, with the same prefixes.                         *)

MaxContentLen == 5
MaxPrefixes == 2

ContentChars == {"/", "a", "x"}

\* --prefix values
PrefixChoices == { <<>>, <<"a">>, <<"/","x">>, <<"/","a","/">>, <<"a","/","x">> }

\* the example of the specification
ExampleContent ==
    <<"h","r","e","f","=","\"">> \o SlashCyb3Raya \o Blog
        \o <<"/","C","S","S","/","x",".","c","s","s","\"">>
ExamplePrefixes == { <<Cyb3Raya \o Blog>>, << <<"/">> \o Cyb3Raya \o Blog \o <<"/">> >> }

InitEngine2 ==
    /\ pc = "apply"
    /\ \/ /\ content \in BoundedSeq(ContentChars, MaxContentLen)
          /\ bad_prefixes \in BoundedSeq(PrefixChoices, MaxPrefixes) \ {<<>>}
       \/ /\ content = ExampleContent
          /\ bad_prefixes \in ExamplePrefixes
    /\ first = <<>> /\ second = <<>>
    /\ repo = <<>>
    /\ ClassifierIdle /\ RewriterIdle /\ DriverIdle

\* first = apply_replacements(content, bad_prefixes)
Apply ==
    /\ pc = "apply"
    /\ first' = apply_replacements(content, bad_prefixes)
    /\ pc' = "applied"
    /\ UNCHANGED <<content, bad_prefixes, second, repo, ClassifierVars, RewriterVars, DriverVars>>

\* a second pass over the result of the first, with the same prefixes
ApplyAgain ==
    /\ pc = "applied"
    /\ second' = apply_replacements(first[1], bad_prefixes)
    /\ pc' = "reapplied"
    /\ UNCHANGED <<content, bad_prefixes, first, repo, ClassifierVars, RewriterVars, DriverVars>>

NextEngine2 == Apply \/ ApplyAgain

SpecEngine2 == InitEngine2 /\ [][NextEngine2]_vars

----------------------------------------------------------------------------
(* Files: names, bytes and text                                            *)

\* the value of a path at which there is no file
Absent == <<"ENOENT">>

Html == <<".","h","t","m","l">>
Css == <<".","c","s","s">>
Bak == <<".","b","a","k">>

\* a path under --root: the directories below the root, the stem of the
\* name and its suffixes; the name is the stem followed by the suffixes
NameOf(fp) == fp.stem \o Concat(fp.exts)

\* Path.suffix: the last suffix of the name, "" if it has none
suffix(fp) == IF fp.exts = <<>> THEN <<>> ELSE fp.exts[Len(fp.exts)]

\* fp.with_suffix(fp.suffix + ".bak"): the same path with ".bak" appended
BackupPath(fp) == [fp EXCEPT !.exts = Append(@, Bak)]

IndexHtml == [dir |-> <<>>, stem |-> <<"i","n","d","e","x">>, exts |-> <<Html>>]
LibCss ==
    [dir |-> << <<"n","o","d","e","_","m","o","d","u","l","e","s">> >>,
     stem |-> <<"l","i","b">>, exts |-> <<Css>>]

\* every path of the model, in the order sorted() gives a list of Paths
Tree == << IndexHtml, BackupPath(IndexHtml), LibCss, BackupPath(LibCss) >>

Paths == { Tree[i] : i \in 1..Len(Tree) }

\* os.linesep of the platform the tools run on (POSIX)
os_linesep == <<"\n">>

\* the text mode of open(): "\r\n" and "\r" are read as "\n"
RECURSIVE UniversalNewlines(_)
UniversalNewlines(t) ==
    IF t = <<>> THEN <<>>
    ELSE IF Head(t) = "\r"
         THEN <<"\n">> \o UniversalNewlines(
                  IF Len(t) >= 2 /\ t[2] = "\n" THEN From(t, 3) ELSE Tail(t))
         ELSE <<Head(t)>> \o UniversalNewlines(Tail(t))

\* the text mode of open(), writing: "\n" is written as os.linesep
RECURSIVE WriteNewlines(_)
WriteNewlines(t) ==
    IF t = <<>> THEN <<>>
    ELSE (IF Head(t) = "\n" THEN os_linesep ELSE <<Head(t)>>) \o WriteNewlines(Tail(t))

\* the bytes above 0x7F of the model and the characters they stand for
HighBytes == {"xC2", "xC3", "xE9", "x83", "xA9"}
Utf8Pairs ==
    [b \in {<<"xC2","xA9">>, <<"xC3","x83">>, <<"xC3","xA9">>} |->
        IF b = <<"xC2","xA9">> THEN "U+00A9"
        ELSE IF b = <<"xC3","x83">> THEN "U+00C3" ELSE "U+00E9"]
Latin1 ==
    [b \in HighBytes |->
        IF b = "xC2" THEN "U+00C2" ELSE IF b = "xC3" THEN "U+00C3"
        ELSE IF b = "xE9" THEN "U+00E9" ELSE IF b = "x83" THEN "U+0083" ELSE "U+00A9"]

\* bytes.decode("utf-8"): an ASCII byte is its character, a two-byte
\* sequence its character; any other high byte is a UnicodeDecodeError
RECURSIVE Utf8Valid(_)
Utf8Valid(b) ==
    IF b = <<>> THEN TRUE
    ELSE IF Head(b) \notin HighBytes THEN Utf8Valid(Tail(b))
    ELSE Len(b) >= 2 /\ SubSeq(b, 1, 2) \in DOMAIN Utf8Pairs /\ Utf8Valid(From(b, 3))

RECURSIVE Utf8Decode(_)
Utf8Decode(b) ==
    IF b = <<>> THEN <<>>
    ELSE IF Head(b) \notin HighBytes THEN <<Head(b)>> \o Utf8Decode(Tail(b))
    ELSE <<Utf8Pairs[SubSeq(b, 1, 2)]>> \o Utf8Decode(From(b, 3))

\* bytes.decode("latin-1"): every byte is one character
Latin1Decode(b) ==
    [i \in 1..Len(b) |-> IF b[i] \in HighBytes THEN Latin1[b[i]] ELSE b[i]]

\* str.encode("utf-8")
RECURSIVE Utf8Encode(_)
Utf8Encode(t) ==
    IF t = <<>> THEN <<>>
    ELSE (IF \E b \in DOMAIN Utf8Pairs : Utf8Pairs[b] = Head(t)
          THEN CHOOSE b \in DOMAIN Utf8Pairs : Utf8Pairs[b] = Head(t)
          ELSE IF Head(t) = "U+00C2" THEN <<"xC3","x82">>
          ELSE IF Head(t) = "U+0083" THEN <<"xC2","x83">>
          ELSE <<Head(t)>>) \o Utf8Encode(Tail(t))

\* Path.write_text(content, encoding="utf-8"): the bytes written
write_text(t) == Utf8Encode(WriteNewlines(t))

\* Path.read_text(encoding="utf-8"): the text, unless the bytes do not decode
CanReadUtf8(b) == Utf8Valid(b)
read_text(b) == UniversalNewlines(Utf8Decode(b))

\* load_text(path): UTF-8, and latin-1 when that fails
load_text(b) ==
    IF Utf8Valid(b) THEN UniversalNewlines(Utf8Decode(b))
    ELSE UniversalNewlines(Latin1Decode(b))

\* save_text(path, content): the bytes written
save_text(t) == write_text(t)

TEXT_EXTS ==
    { Html, <<".","h","t","m">>, Css, <<".","j","s">>, <<".","m","j","s">>,
      <<".","j","s","o","n">>, <<".","x","m","l">>, <<".","t","x","t">>,
      <<".","m","d">>, <<".","y","m","l">>, <<".","y","a","m","l">>,
      <<".","s","v","g">> }

is_probably_text_file(fp) == lower(suffix(fp)) \in TEXT_EXTS

SkipDirs ==
    { <<".","g","i","t">>, <<"n","o","d","e","_","m","o","d","u","l","e","s">>,
      <<".","v","e","n","v">>, <<"v","e","n","v">>,
      <<"_","_","p","y","c","a","c","h","e","_","_">>, <<"d","i","s","t">>,
      <<"b","u","i","l","d">> }

\* should_skip_dir(dpath), for a directory below a root none of whose own
\* parts is a junk name
should_skip_dir(dir) == \E i \in 1..Len(dir) : lower(dir[i]) \in SkipDirs

----------------------------------------------------------------------------
(* The two command-line drivers over a site tree.  fs gives the bytes of   *)
(* every path of the tree (Absent: no such file); args is the parsed       *)
(* command line; todo the files still to visit, cur the file being         *)
(* written, totals the counters and the lines printed.  hist records what  *)
(* the properties need and the program does not keep: the tree at the      *)
(* start of the run, the bytes each file had when its backup was created,  *)
(* and what the run did with each file.                                    *)

MaxRuns == 3

Src(p) == <<"s","r","c","=","\"">> \o p \o <<"\"">>
PageRooted == Src(<<"/","x">>)
PagePrefixed == Src(<<"/","r","/","x">>)
OldBackup == <<"o","l","d">>

\* what index.html holds before the first run: a page with a root path, the
\* same with a CRLF line end, a page with a prefixed path, the same in latin-1
IndexContents ==
    { PageRooted, PageRooted \o <<"\r","\n">>, PagePrefixed, <<"xE9">> \o PagePrefixed }

\* --ext values
ExtArgs ==
    { Html \o <<",">> \o Css, Html \o <<","," ">> \o Bak \o <<",">> }

\* --prefix values: none, the repository name, and "/"
PrefixArgs == { <<>>, << <<"r">> >>, << <<"/">> >> }

NoCur == [fp |-> <<>>, original |-> <<>>, updated |-> <<>>, cnt |-> 0]
NoTotals ==
    [total_files |-> 0, total_changes |-> 0, changed_files |-> <<>>,
     scanned |-> 0, skipped |-> 0, log |-> <<>>, rc |-> 0]
Unread == "unread"

InitDriver ==
    /\ pc = "idle"
    /\ fs \in { f \in [Paths -> IndexContents \cup {PageRooted, OldBackup, Absent}] :
                  /\ f[IndexHtml] \in IndexContents
                  /\ f[BackupPath(IndexHtml)] \in {Absent, OldBackup}
                  /\ f[LibCss] \in {Absent, PageRooted}
                  /\ f[BackupPath(LibCss)] = Absent }
    /\ args = [engine |-> 0, repo |-> <<>>, ext |-> <<>>, prefix |-> <<>>,
               dry_run |-> FALSE, no_backup |-> FALSE]
    /\ todo = <<>>
    /\ cur = NoCur
    /\ totals = NoTotals
    /\ hist = [runs |-> 0, fs0 |-> fs, orig |-> [fp \in Paths |-> Absent],
               seen |-> [fp \in Paths |-> Unread]]
    /\ repo = <<>>
    /\ ClassifierIdle /\ RewriterIdle /\ Engine2Idle

\* s.strip("/")
RECURSIVE strip_slash(_)
strip_slash(s) ==
    IF s = <<>> THEN s
    ELSE IF Head(s) = "/" THEN strip_slash(Tail(s))
    ELSE IF s[Len(s)] = "/" THEN strip_slash(SubSeq(s, 1, Len(s) - 1))
    ELSE s

\* exts = [e.strip() for e in args.ext.split(",") if e.strip()]
Exts(ext) ==
    LET parts == split(ext, <<",">>)
    IN  { strip(parts[i]) : i \in 1..Len(parts) } \ { <<>> }

\* root.rglob("*" + ext): the files whose name ends with ext
rglob(tree, ext) == { fp \in Paths : tree[fp] # Absent /\ endswith(NameOf(fp), ext) }

\* sorted(files)
sorted(files) == SelectSeq(Tree, LAMBDA fp : fp \in files)

StartHist == [hist EXCEPT !.runs = @ + 1, !.fs0 = fs, !.seen = [fp \in Paths |-> Unread]]

Saw(fp, state) == [hist EXCEPT !.seen[fp] = state]

\* fix_pages_paths.py, main(): the command line, the file list, the counters
E1_Start ==
    /\ pc \in {"idle", "done"}
    /\ hist.runs < MaxRuns
    /\ \E ext \in ExtArgs, dry_run \in BOOLEAN, no_backup \in BOOLEAN :
          /\ args' = [engine |-> 1, repo |-> <<"r">>, ext |-> ext, prefix |-> <<>>,
                      dry_run |-> dry_run, no_backup |-> no_backup]
          /\ todo' = sorted(UNION { rglob(fs, e) : e \in Exts(ext) })
    /\ repo' = strip_slash(args'.repo)
    /\ totals' = NoTotals
    /\ cur' = NoCur
    /\ hist' = StartHist
    /\ pc' = "e1_loop"
    /\ UNCHANGED <<fs, bad_prefixes, content, first, second>>
    /\ UNCHANGED <<ClassifierVars, RewriterVars>>

\* the same decision taken without looking at --dry-run
E1_Branch_IgnoreDryRun(cnt, dry_run, no_backup) ==
    IF cnt = 0 THEN "e1_loop"
    ELSE IF ~no_backup THEN "e1_backup"
    ELSE "e1_write"

\* where the loop body goes once the count is known
E1_Branch(cnt, dry_run, no_backup) ==
    IF cnt = 0 THEN "e1_loop"
    ELSE IF dry_run THEN "e1_loop"
    ELSE IF ~no_backup THEN "e1_backup"
    ELSE "e1_write"

\* one turn of the loop, up to the decision about the file
E1_Visit ==
    /\ pc = "e1_loop"
    /\ todo # <<>>
    /\ LET fp == Head(todo)
           original == read_text(fs[fp])
           r == rewrite_text(original, repo)
       IN  /\ todo' = Tail(todo)
           /\ IF endswith(NameOf(fp), Bak)
              THEN /\ hist' = Saw(fp, "skipped")
                   /\ UNCHANGED <<pc, cur, totals>>
              ELSE IF ~CanReadUtf8(fs[fp])
              THEN /\ totals' = [totals EXCEPT !.log = Append(@, <<"skip", fp, 0>>)]
                   /\ hist' = Saw(fp, "skipped")
                   /\ UNCHANGED <<pc, cur>>
              ELSE IF r.count = 0
              THEN /\ hist' = Saw(fp, "unchanged")
                   /\ UNCHANGED <<pc, cur, totals>>
              ELSE /\ pc' = E1_Branch(r.count, args.dry_run, args.no_backup)
                   /\ totals' = [totals EXCEPT
                          !.total_files = @ + 1,
                          !.total_changes = @ + r.count,
                          !.log = IF pc' = "e1_loop"
                                  THEN Append(@, <<"dry-run", fp, r.count>>) ELSE @]
                   /\ cur' = IF pc' = "e1_loop" THEN NoCur
                             ELSE [fp |-> fp, original |-> original,
                                   updated |-> r.out, cnt |-> r.count]
                   /\ hist' = Saw(fp, IF pc' = "e1_loop" THEN "dry-run" ELSE "changed")
    /\ UNCHANGED <<fs, args, repo, bad_prefixes, content, first, second>>
    /\ UNCHANGED <<ClassifierVars, RewriterVars>>

\* the backup, written unless it exists
E1_Backup ==
    /\ pc = "e1_backup"
    /\ LET bak == BackupPath(cur.fp)
       IN  IF fs[bak] = Absent
           THEN /\ fs' = [fs EXCEPT ![bak] = write_text(cur.original)]
                /\ hist' = [hist EXCEPT !.orig[cur.fp] = fs[cur.fp]]
           ELSE UNCHANGED <<fs, hist>>
    /\ pc' = "e1_write"
    /\ UNCHANGED <<args, todo, cur, totals, repo, bad_prefixes, content, first, second>>
    /\ UNCHANGED <<ClassifierVars, RewriterVars>>

\* the file overwritten with the rewritten text
E1_Write ==
    /\ pc = "e1_write"
    /\ fs' = [fs EXCEPT ![cur.fp] = write_text(cur.updated)]
    /\ totals' = [totals EXCEPT !.log = Append(@, <<"updated", cur.fp, cur.cnt>>)]
    /\ hist' = Saw(cur.fp, "written")
    /\ cur' = NoCur
    /\ pc' = "e1_loop"
    /\ UNCHANGED <<args, todo, repo, bad_prefixes, content, first, second>>
    /\ UNCHANGED <<ClassifierVars, RewriterVars>>

\* the summary
E1_Finish ==
    /\ pc = "e1_loop"
    /\ todo = <<>>
    /\ totals' = [totals EXCEPT
           !.log = Append(@, <<"done", totals.total_files, totals.total_changes>>)]
    /\ pc' = "done"
    /\ UNCHANGED <<fs, args, todo, cur, hist, repo, bad_prefixes, content, first, second>>
    /\ UNCHANGED <<ClassifierVars, RewriterVars>>

\* os.walk(root) with the junk directories pruned: the files it yields
Walk(tree) == { fp \in Paths : tree[fp] # Absent /\ ~should_skip_dir(fp.dir) }

IsPrefix(a, b) == Len(a) <= Len(b) /\ SubSeq(b, 1, Len(a)) = a

\* the files of a directory come before those below it
WalkNext(i) ==
    \A j \in 1..Len(todo) : ~(todo[j].dir # todo[i].dir /\ IsPrefix(todo[j].dir, todo[i].dir))

Remove(seq, i) == SubSeq(seq, 1, i - 1) \o SubSeq(seq, i + 1, Len(seq))

\* fix_paths.py, main(): the command line and the counters
E2_Start ==
    /\ pc \in {"idle", "done"}
    /\ hist.runs < MaxRuns
    /\ \E prefix \in PrefixArgs \ {<<>>}, dry_run \in BOOLEAN, no_backup \in BOOLEAN :
          args' = [engine |-> 2, repo |-> <<>>, ext |-> <<>>, prefix |-> prefix,
                   dry_run |-> dry_run, no_backup |-> no_backup]
    /\ bad_prefixes' = args'.prefix
    /\ todo' = sorted(Walk(fs))
    /\ totals' = NoTotals
    /\ cur' = NoCur
    /\ hist' = StartHist
    /\ pc' = "e2_loop"
    /\ UNCHANGED <<fs, repo, content, first, second>>
    /\ UNCHANGED <<ClassifierVars, RewriterVars>>

\* no --prefix given: the error message and exit status 2
E2_NoPrefix ==
    /\ pc \in {"idle", "done"}
    /\ hist.runs < MaxRuns
    /\ \E dry_run \in BOOLEAN, no_backup \in BOOLEAN :
          args' = [engine |-> 2, repo |-> <<>>, ext |-> <<>>, prefix |-> <<>>,
                   dry_run |-> dry_run, no_backup |-> no_backup]
    /\ bad_prefixes' = args'.prefix
    /\ todo' = <<>>
    /\ totals' = [NoTotals EXCEPT !.rc = 2, !.log = <<<<"error", 0, 0>>>>]
    /\ cur' = NoCur
    /\ hist' = StartHist
    /\ pc' = "done"
    /\ UNCHANGED <<fs, repo, content, first, second>>
    /\ UNCHANGED <<ClassifierVars, RewriterVars>>

\* the same decision taken by the count alone
E2_Changed_CountAlone(cnt, updated, original) == cnt > 0

\* whether the loop body goes on to report or write the file
E2_Changed(cnt, updated, original) == ~(cnt <= 0 \/ updated = original)

\* one turn of the inner loop, up to the decision about the file
E2_Visit ==
    /\ pc = "e2_loop"
    /\ \E i \in 1..Len(todo) :
          /\ WalkNext(i)
          /\ LET fp == todo[i]
                 original == load_text(fs[fp])
                 r == apply_replacements(original, bad_prefixes)
                 updated == r[1]
                 cnt == r[2]
             IN  /\ todo' = Remove(todo, i)
                 /\ IF ~is_probably_text_file(fp)
                    THEN /\ totals' = [totals EXCEPT !.skipped = @ + 1]
                         /\ hist' = Saw(fp, "skipped")
                         /\ UNCHANGED <<pc, cur>>
                    ELSE IF ~E2_Changed(cnt, updated, original)
                    THEN /\ totals' = [totals EXCEPT !.scanned = @ + 1]
                         /\ hist' = Saw(fp, "unchanged")
                         /\ UNCHANGED <<pc, cur>>
                    ELSE IF args.dry_run
                    THEN /\ totals' = [totals EXCEPT
                                !.scanned = @ + 1,
                                !.log = Append(@, <<"dry-run", fp, cnt>>),
                                !.changed_files = Append(@, <<fp, cnt>>)]
                         /\ hist' = Saw(fp, "dry-run")
                         /\ UNCHANGED <<pc, cur>>
                    ELSE /\ totals' = [totals EXCEPT !.scanned = @ + 1]
                         /\ cur' = [fp |-> fp, original |-> original,
                                    updated |-> updated, cnt |-> cnt]
                         /\ hist' = Saw(fp, "changed")
                         /\ pc' = IF ~args.no_backup THEN "e2_backup" ELSE "e2_write"
    /\ UNCHANGED <<fs, args, repo, bad_prefixes, content, first, second>>
    /\ UNCHANGED <<ClassifierVars, RewriterVars>>

\* the backup, written unless it exists
E2_Backup ==
    /\ pc = "e2_backup"
    /\ LET backup_path == BackupPath(cur.fp)
       IN  IF fs[backup_path] = Absent
           THEN /\ fs' = [fs EXCEPT ![backup_path] = write_text(cur.original)]
                /\ hist' = [hist EXCEPT !.orig[cur.fp] = fs[cur.fp]]
           ELSE UNCHANGED <<fs, hist>>
    /\ pc' = "e2_write"
    /\ UNCHANGED <<args, todo, cur, totals, repo, bad_prefixes, content, first, second>>
    /\ UNCHANGED <<ClassifierVars, RewriterVars>>

\* the file saved, then recorded as changed
E2_Write ==
    /\ pc = "e2_write"
    /\ fs' = [fs EXCEPT ![cur.fp] = save_text(cur.updated)]
    /\ totals' = [totals EXCEPT
           !.log = Append(@, <<"updated", cur.fp, cur.cnt>>),
           !.changed_files = Append(@, <<cur.fp, cur.cnt>>)]
    /\ hist' = Saw(cur.fp, "written")
    /\ cur' = NoCur
    /\ pc' = "e2_loop"
    /\ UNCHANGED <<args, todo, repo, bad_prefixes, content, first, second>>
    /\ UNCHANGED <<ClassifierVars, RewriterVars>>

RECURSIVE SumCounts(_)
SumCounts(cf) == IF cf = <<>> THEN 0 ELSE Head(cf)[2] + SumCounts(Tail(cf))

\* the summary
E2_Finish ==
    /\ pc = "e2_loop"
    /\ todo = <<>>
    /\ totals' = [totals EXCEPT
           !.log = Append(@, <<"done", Len(totals.changed_files),
                               SumCounts(totals.changed_files)>>)]
    /\ pc' = "done"
    /\ UNCHANGED <<fs, args, todo, cur, hist, repo, bad_prefixes, content, first, second>>
    /\ UNCHANGED <<ClassifierVars, RewriterVars>>

Next ==
    \/ E1_Start \/ E1_Visit \/ E1_Backup \/ E1_Write \/ E1_Finish
    \/ E2_Start \/ E2_NoPrefix \/ E2_Visit \/ E2_Backup \/ E2_Write \/ E2_Finish

Spec == InitDriver /\ [][Next]_vars

----------------------------------------------------------------------------
(* Properties of engine 1 (SpecEngine1)                                    *)

Classified == pc \in {"classified", "reclassified"}

\* the matches pattern.sub / pattern.finditer visits in t
RECURSIVE MatchesFrom(_, _, _, _)
MatchesFrom(kind, t, i, acc) ==
    IF i > Len(t) THEN acc
    ELSE LET m == MatchAt(kind, t, i)
         IN  IF m.ok THEN MatchesFrom(kind, t, m.end + 1, acc \cup {m})
             ELSE MatchesFrom(kind, t, i + 1, acc)

Matches(kind, t) == MatchesFrom(kind, t, 1, {})

\* the text of a match, as it stands in the text it was found in
Whole(m) == m.prefix \o m.path \o m.suffix

\* sub occurs in s
Occurs(sub, s) ==
    \E i \in 1..(Len(s) - Len(sub) + 1) : SubSeq(s, i, i + Len(sub) - 1) = sub

\* the text between the two passes of rewrite_text
AfterAttrPass == Sub("attr", text, 1, repo, <<>>, 0).out

\* external, in the words of the specification (rule 2)
External(p) == \E e \in ExternalPrefixes : startswith(lower(strip(p)), e)

\* r is "/<repo>" or begins with "/<repo>/"
HasRepoPrefix(r) ==
    r = <<"/">> \o repo \/ startswith(r, <<"/">> \o repo \o <<"/">>)

\* C1: a path that is external (after trimming, ignoring case, it begins
\* with http://, https://, mailto:, tel:, data:, javascript:, // or #) is
\* returned by normalize_root_path byte for byte, and rewrite_text leaves an
\* attribute or url() match with such a path as it is: the match stands in
\* the output as it stood in the input, and a text whose matches are all
\* external comes back unchanged with count 0.
C1_ExternalUntouched ==
    /\ Classified /\ External(path) => new = path
    /\ pc = "rewritten" =>
        /\ \A m \in Matches("attr", text) : External(m.path) => Occurs(Whole(m), out)
        /\ \A m \in Matches("css", AfterAttrPass) : External(m.path) => Occurs(Whole(m), out)
        /\ (\A m \in Matches("attr", text) \cup Matches("css", AfterAttrPass) :
                External(m.path)) => (out = text /\ count = 0)

\* C2: the classifier is idempotent on root-absolute paths:
\* normalize_root_path(normalize_root_path(p, repo), repo) = normalize_root_path(p, repo)
\* for every p that begins with "/".
C2_ClassifierIdempotent ==
    pc = "reclassified" /\ startswith(path, <<"/">>) => new2 = new

\* the rule table of the specification (rules 3 to 5) for a root-absolute,
\* non-external path p without surrounding whitespace
RuleTable(p, r) ==
    LET good == <<"/">> \o r
        dbl == good \o SlashCyb3Raya
    IN  IF p = good \/ startswith(p, good \o <<"/">>)
        THEN IF p = dbl THEN good
             ELSE IF startswith(p, dbl \o <<"/">>) THEN good \o From(p, Len(dbl) + 1)
             ELSE p
        ELSE IF p = SlashCyb3Raya THEN good \o <<"/">>
        ELSE IF startswith(p, SlashCyb3Raya \o <<"/">>)
             THEN good \o From(p, Len(SlashCyb3Raya) + 1)
        ELSE good \o p

\* C4: for a non-external path that begins with "/" and has no surrounding
\* whitespace, the classifier's result is the one the rule table gives:
\* rule 3 (already under /<repo>: drop a Cyb3Raya segment right after it),
\* else rule 4 (legacy /Cyb3Raya replaced by /<repo>), else rule 5 (prefix
\* /<repo>); rule 3 goes before rule 4, and a segment that only starts with
\* Cyb3Raya is no legacy segment.
C4_RuleTable ==
    (Classified /\ startswith(path, <<"/">>) /\ strip(path) = path /\ ~External(path))
        => new = RuleTable(path, repo)

\* rule 3 before rule 4: with repo Cyb3Raya, /Cyb3Raya/Cyb3Raya loses its
\* second segment instead of being taken for a legacy path
C4_Witness ==
    /\ pc = "classified"
    /\ repo = Cyb3Raya
    /\ path = SlashCyb3Raya \o SlashCyb3Raya
    /\ new = SlashCyb3Raya

\* C5: a string whose first character is not "/" (the empty string and a
\* string that begins with whitespace before a "/" included) is returned
\* unchanged by normalize_root_path, and an attribute or url() match whose
\* path is such a string stands in the output of rewrite_text unchanged.
C5_NonSlashUnchanged ==
    /\ (Classified /\ ~startswith(path, <<"/">>)) => new = path
    /\ pc = "rewritten" =>
        /\ \A m \in Matches("attr", text) :
               ~startswith(m.path, <<"/">>) => Occurs(Whole(m), AfterAttrPass)
        /\ \A m \in Matches("css", AfterAttrPass) :
               ~startswith(m.path, <<"/">>) => Occurs(Whole(m), out)

----------------------------------------------------------------------------
(* Properties of engine 2 (SpecEngine2)                                    *)

\* the start indices of the occurrences of p in s, left to right and not
\* overlapping, from index i on
RECURSIVE OccFrom(_, _, _, _)
OccFrom(s, p, i, acc) ==
    IF i + Len(p) - 1 > Len(s) THEN acc
    ELSE IF SubSeq(s, i, i + Len(p) - 1) = p THEN OccFrom(s, p, i + Len(p), acc \cup {i})
    ELSE OccFrom(s, p, i + 1, acc)

Occurrences(s, p) == OccFrom(s, p, 1, {})

\* s with each of these occurrences of p replaced by one "/"
RECURSIVE Collapse(_, _, _, _)
Collapse(s, p, occ, i) ==
    IF i > Len(s) THEN <<>>
    ELSE IF i \in occ THEN <<"/">> \o Collapse(s, p, occ, i + Len(p))
    ELSE <<s[i]>> \o Collapse(s, p, occ, i + 1)

\* what the claim says of a list of prefixes: each is made to start and end
\* with "/", its occurrences in the text as it stands are replaced by "/",
\* and their number is added to the total; `skip` says whether an empty
\* prefix is passed over or treated like the others (as "/")
RECURSIVE Expected(_, _, _, _)
Expected(txt, n, prefixes, skip) ==
    IF prefixes = <<>> THEN <<txt, n>>
    ELSE IF skip /\ Head(prefixes) = <<>> THEN Expected(txt, n, Tail(prefixes), skip)
    ELSE LET h == Head(prefixes)
             p == IF h # <<>> /\ Head(h) = "/" /\ h[Len(h)] = "/" THEN h
                  ELSE IF h # <<>> /\ Head(h) = "/" THEN h \o <<"/">>
                  ELSE IF h # <<>> /\ h[Len(h)] = "/" THEN <<"/">> \o h
                  ELSE IF h = <<>> THEN <<"/">>
                  ELSE <<"/">> \o h \o <<"/">>
             occ == Occurrences(txt, p)
         IN  Expected(Collapse(txt, p, occ, 1), n + Cardinality(occ), Tail(prefixes), skip)

\* C3: engine 2 is idempotent: a second pass with the same prefixes over the
\* result of the first returns that text unchanged, with count 0.
C3_Engine2Idempotent ==
    pc = "reapplied" => second = <<first[1], 0>>

\* C6 as claimed: every supplied prefix is processed, in order; the result is
\* the text with the occurrences replaced and the number of occurrences.
C6_EveryPrefix ==
    pc \in {"applied", "reapplied"} => first = Expected(content, 0, bad_prefixes, FALSE)

\* C6 as amended: every supplied prefix that is not empty is processed, in
\* order (an empty prefix is passed over and adds nothing); the result is
\* the text with the occurrences of each normalized prefix replaced by "/",
\* and the total is the number of these occurrences, which is the number of
\* replacements made: each one shortens the text by the prefix's length less 1.
C6_EveryNonEmptyPrefix ==
    pc \in {"applied", "reapplied"} =>
        /\ first = Expected(content, 0, bad_prefixes, TRUE)
        /\ Len(bad_prefixes) = 1 /\ bad_prefixes[1] # <<>> =>
               Len(content) - Len(first[1])
                   = first[2] * (Len(NormalizePrefix(bad_prefixes[1])) - 1)

\* the example of the specification, the prefix given without slashes
C6_Witness ==
    /\ pc = "applied"
    /\ content = ExampleContent
    /\ bad_prefixes = <<Cyb3Raya \o Blog>>
    /\ first = << <<"h","r","e","f","=","\"","/","C","S","S","/","x",".","c","s","s","\"">>, 1 >>

----------------------------------------------------------------------------
(* Properties of the drivers (Spec)                                        *)

\* the files a run of the engine of args reads, in the tree it starts from
Selected(tree) ==
    IF args.engine = 1
    THEN { fp \in UNION { rglob(tree, e) : e \in Exts(args.ext) } :
             ~endswith(NameOf(fp), Bak) /\ CanReadUtf8(tree[fp]) }
    ELSE { fp \in Walk(tree) : totals.rc = 0 /\ is_probably_text_file(fp) }

\* the text the engine of args reads from a file
TextOf(tree, fp) ==
    IF args.engine = 1 THEN read_text(tree[fp]) ELSE load_text(tree[fp])

\* <<updated text, change count>> of the engine of args for a file
Result(tree, fp) ==
    IF args.engine = 1
    THEN LET r == rewrite_text(TextOf(tree, fp), repo) IN <<r.out, r.count>>
    ELSE apply_replacements(TextOf(tree, fp), bad_prefixes)

Differs(tree, fp) == Result(tree, fp)[1] # TextOf(tree, fp)

\* the per-file lines printed for a file
Lines(fp) ==
    { i \in 1..Len(totals.log) :
        totals.log[i][1] \in {"dry-run", "updated"} /\ totals.log[i][2] = fp }

\* the files the summary counts as changed
Counted ==
    IF args.engine = 1 THEN { fp \in Paths : Lines(fp) # {} }
    ELSE { totals.changed_files[i][1] : i \in 1..Len(totals.changed_files) }

FilesChanged ==
    IF args.engine = 1 THEN totals.total_files ELSE Len(totals.changed_files)

TotalReplacements ==
    IF args.engine = 1 THEN totals.total_changes ELSE SumCounts(totals.changed_files)

RECURSIVE SumTree(_, _)
SumTree(i, cnt) == IF i > Len(Tree) THEN 0 ELSE cnt[Tree[i]] + SumTree(i + 1, cnt)

\* C7: once a backup exists it is never written again, so after any number
\* of runs of either engine the backup of a file still holds the bytes the
\* file had when the backup was created, just before the file was first
\* modified with backups enabled; and no backup file is itself rewritten.
C7_BackupHoldsOriginal ==
    \A fp \in Paths :
        /\ hist.orig[fp] # Absent => fs[BackupPath(fp)] = hist.orig[fp]
        /\ endswith(NameOf(fp), Bak) => hist.seen[fp] \in {"unread", "skipped"}

\* what a run reports for the tree it started from, dry or not
ReportsOf(tree) ==
    LET changed == { fp \in Selected(tree) :
                       Result(tree, fp)[2] # 0 /\ Differs(tree, fp) }
    IN  [files |-> Cardinality(changed),
         total |-> SumTree(1, [fp \in Paths |->
                      IF fp \in changed THEN Result(tree, fp)[2] ELSE 0]),
         counts |-> { <<fp, Result(tree, fp)[2]>> : fp \in changed }]

\* C8: during and after a run with --dry-run every path of the tree holds
\* what it held when the run started (nothing overwritten, no backup
\* created), with or without --no-backup; and the per-file counts and the
\* summary totals of any run, dry or not, are those determined by the tree
\* the run started from.
C8_DryRunLeavesTree ==
    /\ pc # "idle" /\ args.dry_run => fs = hist.fs0
    /\ pc = "done" /\ totals.rc = 0 =>
          /\ FilesChanged = ReportsOf(hist.fs0).files
          /\ TotalReplacements = ReportsOf(hist.fs0).total
          /\ { <<totals.log[i][2], totals.log[i][3]>> :
                 i \in { j \in 1..Len(totals.log) :
                           totals.log[j][1] \in {"dry-run", "updated"} } }
               = ReportsOf(hist.fs0).counts

\* a dry run with backups enabled has finished; it found something to
\* change in index.html, which has no backup
C8_Witness ==
    /\ pc = "done"
    /\ args.dry_run
    /\ ~args.no_backup
    /\ IndexHtml \in Counted
    /\ TotalReplacements > 0
    /\ fs[BackupPath(IndexHtml)] = Absent

\* whether a run takes a file for changed: by its count alone, or by its
\* count and the difference between the rewritten text and the text read
Changed(fp, byCountAlone) ==
    Result(hist.fs0, fp)[2] # 0 /\ (byCountAlone \/ Differs(hist.fs0, fp))

\* the state machine of a file, decided by Changed
DriverStateMachine(byCountAlone) ==
    /\ pc = "done" =>
          \A fp \in Selected(hist.fs0) :
              LET bak == BackupPath(fp)
              IN  /\ Cardinality(Lines(fp)) <= 1
                  /\ fp \in Counted <=> Changed(fp, byCountAlone)
                  /\ \A i \in Lines(fp) :
                         totals.log[i][1] = "dry-run" <=> args.dry_run
                  /\ Changed(fp, byCountAlone) /\ ~args.dry_run =>
                         /\ fs[fp] = write_text(Result(hist.fs0, fp)[1])
                         /\ ~args.no_backup => fs[bak] # Absent
                         /\ ~args.no_backup /\ hist.fs0[bak] = Absent =>
                                read_text(fs[bak]) = TextOf(hist.fs0, fp)
                  /\ ~(Changed(fp, byCountAlone) /\ ~args.dry_run) =>
                         fs[fp] = hist.fs0[fp] /\ fs[bak] = hist.fs0[bak]
    /\ pc \in {"e1_write", "e2_write"} =>
          LET bak == BackupPath(cur.fp)
          IN  /\ fs[cur.fp] = hist.fs0[cur.fp]
              /\ ~args.no_backup => fs[bak] # Absent
              /\ ~args.no_backup /\ hist.fs0[bak] = Absent =>
                     read_text(fs[bak]) = cur.original

====
